---- MODULE Spec2Model ----
(***************************************************************************)
(* polymer-analyzer: the project-wide query engine (AnalysisResult), the   *)
(* source-location remapper (correctSourceLocation) and the external-path  *)
(* classifier (AnalysisResult.isExternal).                                 *)
(*                                                                         *)
(* A project is the insertion-ordered Map url -> Document | Warning handed *)
(* to the AnalysisResult constructor.  A url is the position of its entry  *)
(* in the Map, so the Map's iteration order is 1, 2, ..., Len(results).    *)
(* A Document is identified by its url; its local features and warnings    *)
(* are the records of `features` and `warnings` that it owns.              *)
(***************************************************************************)
EXTENDS Naturals, Integers, Sequences, FiniteSets, TLC

VARIABLES
  results,          \* AnalysisResult._results: url -> "Document" | "Warning"
  features,         \* every Feature of the project, each owned by a Document
  warnings,         \* every Warning raised inside a Document
  pc,               \* "new" before the constructor has run, "ready" after
  searchRoots,      \* AnalysisResult._searchRoots, in Set iteration order
  examined,         \* the Documents whose imports the constructor enumerated
  ret,              \* the query in progress on the AnalysisResult and its outcome
  sourceLocation,   \* correctSourceLocation: first argument
  locationOffset,   \* correctSourceLocation: second argument
  corrected,        \* correctSourceLocation: returned value
  path,             \* isExternal: argument, a sequence of characters
  external          \* isExternal: returned value

vars == <<results, features, warnings, pc, searchRoots, examined, ret,
          sourceLocation, locationOffset, corrected, path, external>>

----------------------------------------------------------------------------
(* Bounds *)

MaxDocs == 3          \* entries of the project mapping
MaxImports == 3       \* import features in a project
MaxQueryDocs == 2     \* entries of the mapping, projects that are queried
MaxQueryImports == 1  \* import features, projects that are queried
MaxElements == 2      \* element features, projects that are queried
MaxDocWarnings == 1   \* warnings raised inside Documents
MaxCoord == 2         \* largest line / column number of a location
MaxPieces == 3        \* pieces a path is put together from

----------------------------------------------------------------------------
(* Values *)

NoDocument == 0       \* Import.document of an import that did not resolve
Undefined == [undefined |-> TRUE]   \* the JavaScript value undefined
NoFile == "<no file>"               \* a location without a file property
NoRet == [op |-> "none"]

Range(s) == {s[i] : i \in 1..Len(s)}

RECURSIVE BoundedSubsets(_, _)
\* the subsets of S that have at most k elements
BoundedSubsets(S, k) ==
  IF k = 0 THEN {{}}
  ELSE LET smaller == BoundedSubsets(S, k - 1)
       IN  smaller \cup {s \cup {x} : s \in smaller, x \in S}

RECURSIVE SetToSeq(_)
\* the numbers of S in increasing order
SetToSeq(S) ==
  IF S = {} THEN <<>>
  ELSE LET m == CHOOSE x \in S : \A y \in S : x <= y
       IN  <<m>> \o SetToSeq(S \ {m})

Urls(res) == 1..Len(res)
DocumentsOf(res) == {u \in Urls(res) : res[u] = "Document"}
\* as Documents, without the filter r instanceof Document
DocumentsUnfiltered == Urls(results)
Documents == DocumentsOf(results)
TopLevelWarnings == {u \in Urls(results) : results[u] = "Warning"}

ImportFeature(owner, target, lazy) ==
  [kind |-> "import", owner |-> owner, id |-> "", target |-> target, lazy |-> lazy]
ElementFeature(owner, id) ==
  [kind |-> "element", owner |-> owner, id |-> id, target |-> NoDocument, lazy |-> FALSE]

Kinds == {"import", "element"}
Identifiers == {"x-foo", "x-bar"}   \* the identifiers queries ask for
ElementIdentifiers == {"x-foo"}     \* the identifiers elements are scanned with

----------------------------------------------------------------------------
(* Document: the per-document queries the engine delegates to.             *)

BooleanOptions == [externalPackages : BOOLEAN, noLazyImports : BOOLEAN]
NoOptions == [externalPackages |-> FALSE, noLazyImports |-> FALSE]

LocalFeatures(doc) == {f \in features : f.owner = doc}

\* the Documents that doc's own import features lead to under the options;
\* an unresolved import, and with noLazyImports a lazy one, is not followed
FollowedImports(doc, options) ==
  {f.target : f \in {g \in LocalFeatures(doc) :
                       /\ g.kind = "import"
                       /\ g.target # NoDocument
                       /\ options.noLazyImports => ~g.lazy}}

RECURSIVE Traverse(_, _, _)
\* the Documents visited from the Documents of todo, each visited once
Traverse(todo, visited, options) ==
  IF todo = {} THEN visited
  ELSE LET doc == CHOOSE d \in todo : TRUE
       IN  IF doc \in visited
           THEN Traverse(todo \ {doc}, visited, options)
           ELSE Traverse((todo \ {doc}) \cup FollowedImports(doc, options),
                         visited \cup {doc}, options)

DocGetFeatures(doc, options) ==
  IF options.imported
  THEN UNION {LocalFeatures(d) : d \in Traverse({doc}, {}, options)}
  ELSE LocalFeatures(doc)

DocGetByKind(doc, kind, options) ==
  {f \in DocGetFeatures(doc, options) : f.kind = kind}

DocGetById(doc, kind, identifier, options) ==
  {f \in DocGetByKind(doc, kind, options) : f.id = identifier}

DocGetWarnings(doc, options) ==
  LET docs == IF options.imported THEN Traverse({doc}, {}, options) ELSE {doc}
      own  == {d \in docs : [top |-> FALSE, at |-> d] \in warnings}
      ord  == SetToSeq(own)
  IN  [i \in 1..Len(ord) |-> [top |-> FALSE, at |-> ord[i]]]

----------------------------------------------------------------------------
(* AnalysisResult *)

Remove(seq, gone) ==
  LET Stays(x) == x \notin gone IN SelectSeq(seq, Stays)

\* as ImportedDocuments, had the constructor asked for {imported: false}
ImportedDocumentsDirect(doc) ==
  {imprt.target : imprt \in DocGetByKind(doc, "import",
      [imported |-> FALSE, externalPackages |-> FALSE, noLazyImports |-> FALSE])}

\* the .document of every import doc.getByKind('import', {imported: true}) yields
ImportedDocuments(doc) ==
  {imprt.target : imprt \in DocGetByKind(doc, "import",
      [imported |-> TRUE, externalPackages |-> FALSE, noLazyImports |-> FALSE])}

\* as RemoveImported, without the test imprt.document !== doc
RemoveImportedAnyTarget(doc, potentialRoots) ==
  Remove(potentialRoots, ImportedDocuments(doc))

\* the inner loop of the constructor: potentialRoots after doc's imports
RemoveImported(doc, potentialRoots) ==
  Remove(potentialRoots, {d \in ImportedDocuments(doc) : d # doc})

RECURSIVE ReduceRootsVisitingAll(_, _, _, _)
\* as ReduceRoots, over a copy of the candidates: deleted entries are visited too
ReduceRootsVisitingAll(documents, i, potentialRoots, seen) ==
  IF i > Len(documents) THEN [roots |-> potentialRoots, examined |-> seen]
  ELSE ReduceRootsVisitingAll(documents, i + 1,
                              RemoveImported(documents[i], potentialRoots),
                              seen \cup {documents[i]})

RECURSIVE ReduceRootsSkippingLast(_, _, _, _)
\* as ReduceRoots, with a loop that stops one candidate early
ReduceRootsSkippingLast(documents, i, potentialRoots, seen) ==
  IF i >= Len(documents) THEN [roots |-> potentialRoots, examined |-> seen]
  ELSE IF documents[i] \notin Range(potentialRoots)
       THEN ReduceRootsSkippingLast(documents, i + 1, potentialRoots, seen)
       ELSE ReduceRootsSkippingLast(documents, i + 1,
                                    RemoveImported(documents[i], potentialRoots),
                                    seen \cup {documents[i]})

RECURSIVE ReduceRoots(_, _, _, _)
\* the outer loop of the constructor from position i of the candidates: a
\* Set iterator does not visit an entry deleted before it is reached
ReduceRoots(documents, i, potentialRoots, seen) ==
  IF i > Len(documents) THEN [roots |-> potentialRoots, examined |-> seen]
  ELSE IF documents[i] \notin Range(potentialRoots)
       THEN ReduceRoots(documents, i + 1, potentialRoots, seen)
       ELSE ReduceRoots(documents, i + 1,
                        RemoveImported(documents[i], potentialRoots),
                        seen \cup {documents[i]})

\* the Documents of the mapping in the order the Map yields them
DocumentsInOrder == SetToSeq(Documents)

Construct ==
  /\ pc = "new"
  /\ LET r == ReduceRoots(DocumentsInOrder, 1, DocumentsInOrder, {})
     IN  /\ searchRoots' = r.roots
         /\ examined' = r.examined
  /\ pc' = "ready"
  /\ UNCHANGED <<results, features, warnings, ret,
                 sourceLocation, locationOffset, corrected, path, external>>

SearchRootSet == Range(searchRoots)

GetDocumentQueryOptions(options) ==
  [imported |-> TRUE,
   externalPackages |-> options.externalPackages,
   noLazyImports |-> options.noLazyImports]

RECURSIVE AddAllByKind(_, _, _, _)
AddAllByKind(result, i, kind, docQueryOptions) ==
  IF i > Len(searchRoots) THEN result
  ELSE AddAllByKind(result \cup DocGetByKind(searchRoots[i], kind, docQueryOptions),
                    i + 1, kind, docQueryOptions)

AnalysisGetByKind(kind, options) ==
  AddAllByKind({}, 1, kind, GetDocumentQueryOptions(options))

RECURSIVE AddAllById(_, _, _, _, _)
AddAllById(result, i, kind, identifier, docQueryOptions) ==
  IF i > Len(searchRoots) THEN result
  ELSE AddAllById(result \cup DocGetById(searchRoots[i], kind, identifier, docQueryOptions),
                  i + 1, kind, identifier, docQueryOptions)

AnalysisGetById(kind, identifier, options) ==
  AddAllById({}, 1, kind, identifier, GetDocumentQueryOptions(options))

RECURSIVE AddAllFeatures(_, _, _)
AddAllFeatures(result, i, docQueryOptions) ==
  IF i > Len(searchRoots) THEN result
  ELSE AddAllFeatures(result \cup DocGetFeatures(searchRoots[i], docQueryOptions),
                      i + 1, docQueryOptions)

AnalysisGetFeatures(options) ==
  AddAllFeatures({}, 1, GetDocumentQueryOptions(options))

\* the error getOnlyAtId throws: the pieces of its message
MultipleResults(kind, identifier, size) ==
  [threw |-> TRUE,
   message |-> <<"Expected to find at most one ", kind, " with id ", identifier,
                 " but found ", size, ".">>]

\* as AnalysisGetOnlyAtId, without the size test: the first match wins
AnalysisGetOnlyAtIdFirstMatch(kind, identifier, options) ==
  LET found == AnalysisGetById(kind, identifier, options)
  IN  [threw |-> FALSE,
       value |-> IF found = {} THEN Undefined ELSE CHOOSE f \in found : TRUE]

AnalysisGetOnlyAtId(kind, identifier, options) ==
  LET found == AnalysisGetById(kind, identifier, options)
  IN  IF Cardinality(found) > 1
      THEN MultipleResults(kind, identifier, Cardinality(found))
      ELSE [threw |-> FALSE,
            value |-> IF found = {} THEN Undefined ELSE CHOOSE f \in found : TRUE]

RECURSIVE AddSeq(_, _)
\* a Set to which the values of seq were added in turn, in insertion order
AddSeq(set, seq) ==
  IF seq = <<>> THEN set
  ELSE AddSeq(IF Head(seq) \in Range(set) THEN set ELSE Append(set, Head(seq)),
              Tail(seq))

RECURSIVE AddAllWarnings(_, _, _)
AddAllWarnings(result, i, docQueryOptions) ==
  IF i > Len(searchRoots) THEN result
  ELSE AddAllWarnings(
         AddSeq(result, AddSeq(<<>>, DocGetWarnings(searchRoots[i], docQueryOptions))),
         i + 1, docQueryOptions)

AnalysisGetWarnings(options) ==
  LET top == SetToSeq(TopLevelWarnings)
      topWarnings == [i \in 1..Len(top) |-> [top |-> TRUE, at |-> top[i]]]
  IN  AddAllWarnings(AddSeq(<<>>, topWarnings), 1, GetDocumentQueryOptions(options))

AnalysisGetDocument(url) ==
  IF url \in Urls(results)
  THEN [undefined |-> FALSE, kind |-> results[url], url |-> url]
  ELSE Undefined

Unqueried == <<sourceLocation, locationOffset, corrected, path, external,
               results, features, warnings, pc, searchRoots, examined>>

GetDocument ==
  /\ pc = "ready"
  /\ ret = NoRet
  /\ \E url \in 1..(Len(results) + 1) :
       ret' = [op |-> "getDocument", url |-> url, value |-> AnalysisGetDocument(url)]
  /\ UNCHANGED Unqueried

GetByKind ==
  /\ pc = "ready"
  /\ ret = NoRet
  /\ \E kind \in Kinds, options \in BooleanOptions :
       ret' = [op |-> "getByKind", kind |-> kind, options |-> options,
               value |-> AnalysisGetByKind(kind, options)]
  /\ UNCHANGED Unqueried

GetById ==
  /\ pc = "ready"
  /\ ret = NoRet
  /\ \E kind \in Kinds, identifier \in Identifiers, options \in BooleanOptions :
       ret' = [op |-> "getById", kind |-> kind, id |-> identifier, options |-> options,
               value |-> AnalysisGetById(kind, identifier, options)]
  /\ UNCHANGED Unqueried

GetOnlyAtId ==
  /\ pc = "ready"
  /\ ret = NoRet
  /\ \E kind \in Kinds, identifier \in Identifiers, options \in BooleanOptions :
       ret' = [op |-> "getOnlyAtId", kind |-> kind, id |-> identifier, options |-> options,
               value |-> AnalysisGetOnlyAtId(kind, identifier, options)]
  /\ UNCHANGED Unqueried

GetFeatures ==
  /\ pc = "ready"
  /\ ret = NoRet
  /\ \E options \in BooleanOptions :
       ret' = [op |-> "getFeatures", options |-> options,
               value |-> AnalysisGetFeatures(options)]
  /\ UNCHANGED Unqueried

GetWarnings ==
  /\ pc = "ready"
  /\ ret = NoRet
  /\ \E options \in BooleanOptions :
       ret' = [op |-> "getWarnings", options |-> options,
               value |-> AnalysisGetWarnings(options)]
  /\ UNCHANGED Unqueried

\* the caller has the outcome of its query; the engine is unchanged by it
Return ==
  /\ pc = "ready"
  /\ ret # NoRet
  /\ ret' = NoRet
  /\ UNCHANGED Unqueried

----------------------------------------------------------------------------
(* correctSourceLocation *)

\* as CorrectSourceLocationOf, with the column offset applied on every line
CorrectSourceLocationOfEveryLine(location, offset) ==
  IF offset = Undefined \/ location = Undefined THEN location
  ELSE [line |-> location.line + offset.line,
        column |-> location.column + offset.col,
        file |-> IF offset.filename # NoFile \/ location.file # NoFile
                 THEN (IF offset.filename \notin {NoFile, ""}
                       THEN offset.filename ELSE location.file)
                 ELSE NoFile]

CorrectSourceLocationOf(location, offset) ==
  IF offset = Undefined \/ location = Undefined THEN location
  ELSE [line |-> location.line + offset.line,
        column |-> location.column + (IF location.line = 0 THEN offset.col ELSE 0),
        file |-> IF offset.filename # NoFile \/ location.file # NoFile
                 THEN (IF offset.filename \notin {NoFile, ""}
                       THEN offset.filename ELSE location.file)
                 ELSE NoFile]

CorrectSourceLocation ==
  /\ pc = "location"
  /\ corrected' = CorrectSourceLocationOf(sourceLocation, locationOffset)
  /\ pc' = "located"
  /\ UNCHANGED <<results, features, warnings, searchRoots, examined, ret,
                 sourceLocation, locationOffset, path, external>>

----------------------------------------------------------------------------
(* MATCHES_EXTERNAL and AnalysisResult.isExternal: a path is a sequence of *)
(* characters                                                              *)

Slash == <<"/">>
Build == <<"b", "u", "i", "l", "d">>
BowerComponents == <<"b", "o", "w", "e", "r", "_",
                     "c", "o", "m", "p", "o", "n", "e", "n", "t", "s">>
NodeModules == <<"n", "o", "d", "e", "_", "m", "o", "d", "u", "l", "e", "s">>

\* the literal lit matches the characters of p from position i on
LiteralAt(p, i, lit) ==
  /\ i + Len(lit) - 1 <= Len(p)
  /\ \A k \in 1..Len(lit) : p[i + k - 1] = lit[k]

\* as MatchesExternal, for /(^|\/)(bower_components|node_modules|build)/
MatchesExternalPrefix(p) ==
  \E j \in 1..(Len(p) + 1) :
    /\ j = 1 \/ p[j - 1] = "/"
    /\ \/ LiteralAt(p, j, BowerComponents)
       \/ LiteralAt(p, j, NodeModules)
       \/ LiteralAt(p, j, Build)

\* /(^|\/)(bower_components|node_modules|build($|\/))/.test(p): the second
\* group starts at position j, right after the start of p or after a "/"
MatchesExternal(p) ==
  \E j \in 1..(Len(p) + 1) :
    /\ j = 1 \/ p[j - 1] = "/"
    /\ \/ LiteralAt(p, j, BowerComponents)
       \/ LiteralAt(p, j, NodeModules)
       \/ /\ LiteralAt(p, j, Build)
          /\ j + Len(Build) = Len(p) + 1 \/ p[j + Len(Build)] = "/"

IsExternal ==
  /\ pc = "path"
  /\ external' = MatchesExternal(path)
  /\ pc' = "classified"
  /\ UNCHANGED <<results, features, warnings, searchRoots, examined, ret,
                 sourceLocation, locationOffset, corrected, path>>

----------------------------------------------------------------------------
(* Specifications *)

EntryKinds == {"Document", "Warning"}
Mappings(maxDocs) == UNION {[1..n -> EntryKinds] : n \in 0..maxDocs}

ImportUniverse(res, laziness) ==
  {ImportFeature(o, t, l) : o \in DocumentsOf(res),
                            t \in DocumentsOf(res) \cup {NoDocument},
                            l \in laziness}
ElementUniverse(res) ==
  {ElementFeature(o, id) : o \in DocumentsOf(res), id \in ElementIdentifiers}
WarningUniverse(res) == {[top |-> FALSE, at |-> d] : d \in DocumentsOf(res)}

Locations ==
  {Undefined} \cup [line : 0..MaxCoord, column : 0..MaxCoord \cup {5},
                    file : {NoFile, "", "inner.js"}]
Offsets ==
  {Undefined} \cup [line : 0..MaxCoord \cup {10}, col : 0..MaxCoord \cup {3},
                    filename : {NoFile, "", "outer.html"}]

Pieces == {Slash, Build, BowerComponents, NodeModules,
           <<"n", "o", "d", "e", "_">>, <<"m", "o", "d", "u", "l", "e", "s">>,
           <<"-">>, <<"x">>}
RECURSIVE Paths(_)
Paths(n) ==
  IF n = 0 THEN {<<>>}
  ELSE LET shorter == Paths(n - 1)
       IN  shorter \cup {p \o q : p \in shorter, q \in Pieces}

NoAnalysis ==
  /\ results = <<>>
  /\ features = {}
  /\ warnings = {}
  /\ searchRoots = <<>>
  /\ examined = {}
  /\ ret = NoRet
NoLocation ==
  /\ sourceLocation = Undefined
  /\ locationOffset = Undefined
  /\ corrected = Undefined
NoPath ==
  /\ path = <<>>
  /\ external = FALSE

InitProject(maxDocs, maxImports, laziness, maxElements, maxWarnings) ==
  /\ results \in Mappings(maxDocs)
  /\ \E imports \in BoundedSubsets(ImportUniverse(results, laziness), maxImports),
        elements \in BoundedSubsets(ElementUniverse(results), maxElements) :
       features = imports \cup elements
  /\ warnings \in BoundedSubsets(WarningUniverse(results), maxWarnings)
  /\ pc = "new"
  /\ searchRoots = <<>>
  /\ examined = {}
  /\ ret = NoRet
  /\ NoLocation
  /\ NoPath

\* the constructor over projects of Documents, Warnings and imports; it asks
\* for every import, lazy or not, so the imports are drawn without laziness
InitRoots == InitProject(MaxDocs, MaxImports, {FALSE}, 0, 0)
NextRoots == Construct
SpecRoots == InitRoots /\ [][NextRoots]_vars

\* the queries over projects that also hold elements and warnings
Init == InitProject(MaxQueryDocs, MaxQueryImports, BOOLEAN, MaxElements, MaxDocWarnings)
Next ==
  \/ Construct
  \/ GetDocument
  \/ GetByKind
  \/ GetById
  \/ GetOnlyAtId
  \/ GetFeatures
  \/ GetWarnings
  \/ Return
Spec == Init /\ [][Next]_vars

InitLocation ==
  /\ sourceLocation \in Locations
  /\ locationOffset \in Offsets
  /\ corrected = Undefined
  /\ pc = "location"
  /\ NoAnalysis
  /\ NoPath
NextLocation == CorrectSourceLocation
SpecLocation == InitLocation /\ [][NextLocation]_vars

InitPath ==
  /\ path \in Paths(MaxPieces)
  /\ external = FALSE
  /\ pc = "path"
  /\ NoAnalysis
  /\ NoLocation
NextPath == IsExternal
SpecPath == InitPath /\ [][NextPath]_vars

----------------------------------------------------------------------------
(* The import graph of the project, for the properties below *)

\* some import feature of Document a resolved to Document b
Edge(a, b) ==
  \E f \in features : f.kind = "import" /\ f.owner = a /\ f.target = b

RECURSIVE Closure(_)
Closure(S) ==
  LET next == S \cup {b \in Documents : \E a \in S : Edge(a, b)}
  IN  IF next = S THEN S ELSE Closure(next)

\* b is reachable from a by zero or more import edges
Reaches(a, b) == b \in Closure({a})

Arrangements(S) ==
  {f \in [1..Cardinality(S) -> S] : \A i, j \in DOMAIN f : f[i] = f[j] => i = j}

\* the sets of Documents that lie on one import cycle
Cycles ==
  {S \in SUBSET Documents \ {{}} :
     \E f \in Arrangements(S) :
       \A i \in DOMAIN f : Edge(f[i], f[(i % Cardinality(S)) + 1])}

Acyclic == Cycles = {}

ImportedFromOutside(S) ==
  \E a \in Documents \ S, b \in S : Edge(a, b)

Sources == {d \in Documents : ~ \E a \in Documents \ {d} : Edge(a, d)}

RootsInOrder(order) == Range(ReduceRoots(order, 1, order, {}).roots)

----------------------------------------------------------------------------
(* C1: after the constructor, every Document of the mapping is reachable   *)
(* by zero or more import edges from some search root.                     *)
RootSetSound ==
  pc = "ready" =>
    \A d \in Documents : \E r \in SearchRootSet : Reaches(r, d)

RootSetSoundWitness ==
  /\ pc = "ready"
  /\ Cardinality(Documents) = 3
  /\ Cardinality(SearchRootSet) = 1
  /\ \E a, b \in Documents \ SearchRootSet : a # b /\ Edge(a, b) /\ Edge(b, a)

(* C2 as stated: every import cycle keeps one of its Documents in the      *)
(* search-root set.                                                        *)
EveryCycleKeepsARoot ==
  pc = "ready" => \A S \in Cycles : S \cap SearchRootSet # {}

(* C2 amended: every import cycle none of whose Documents is imported by a *)
(* Document outside the cycle keeps one of its Documents in the            *)
(* search-root set.                                                        *)
UnimportedCycleKeepsARoot ==
  pc = "ready" =>
    \A S \in Cycles : ~ImportedFromOutside(S) => S \cap SearchRootSet # {}

UnimportedCycleWitness ==
  /\ pc = "ready"
  /\ \E S \in Cycles :
       /\ Cardinality(S) = 2
       /\ ~ImportedFromOutside(S)
       /\ Cardinality(S \cap SearchRootSet) = 1
       /\ Documents \ S # {}

(* C3: when the import graph is acyclic, the search roots are exactly the  *)
(* Documents that no other Document imports.                               *)
AcyclicRootsAreSources ==
  (pc = "ready" /\ Acyclic) => SearchRootSet = Sources

AcyclicRootsWitness ==
  /\ pc = "ready"
  /\ Acyclic
  /\ Edge(1, 2) /\ Edge(2, 3)
  /\ SearchRootSet = {1}

(* C9 as stated: the target of an import edge between two different        *)
(* Documents is never a search root.                                       *)
ImportTargetsAreNotRoots ==
  pc = "ready" =>
    \A a, b \in Documents : (a # b /\ Edge(a, b)) => b \notin SearchRootSet

(* C9 amended: the target B of an import edge A -> B between two different *)
(* Documents is not a search root, unless B transitively imports A (the    *)
(* edge lies on an import cycle).                                          *)
AcyclicImportTargetsAreNotRoots ==
  pc = "ready" =>
    \A a, b \in Documents :
      (a # b /\ Edge(a, b) /\ ~Reaches(b, a)) => b \notin SearchRootSet

AcyclicImportTargetsWitness ==
  /\ pc = "ready"
  /\ \E a, b \in Documents :
       a # b /\ Edge(a, b) /\ ~Reaches(b, a) /\ a \notin SearchRootSet
  /\ \E a, b \in Documents :
       a # b /\ Edge(a, b) /\ Reaches(b, a) /\ b \in SearchRootSet

(* C10 as stated: the search-root set is the same whatever order the       *)
(* Documents are visited in, and the pass examines the imports of every    *)
(* Document of the mapping.                                                *)
RootsIndependentOfOrder ==
  pc = "ready" =>
    /\ \A order \in Arrangements(Documents) : RootsInOrder(order) = SearchRootSet
    /\ examined = Documents

(* C10 amended: when the import graph is acyclic the search-root set is    *)
(* the same whatever order the Documents are visited in; the pass examines *)
(* the imports of every Document that is still a candidate when it is      *)
(* reached, which includes every search root, and a Document it does not   *)
(* examine was removed by a Document examined before it.                   *)
AcyclicRootsIndependentOfOrder ==
  pc = "ready" =>
    /\ Acyclic =>
         \A order \in Arrangements(Documents) : RootsInOrder(order) = SearchRootSet
    /\ SearchRootSet \subseteq examined
    /\ \A d \in Documents \ examined :
         \E e \in examined : e < d /\ Reaches(e, d)

AcyclicOrderWitness ==
  /\ pc = "ready"
  /\ Acyclic
  /\ Cardinality(Documents) = 3
  /\ Edge(3, 1) /\ Edge(1, 2)
  /\ examined = {1, 3}

----------------------------------------------------------------------------
(* What a project-wide query yields when every Document of the mapping,    *)
(* not only the search roots, is asked *)

EveryDocumentByKind(kind, options) ==
  UNION {DocGetByKind(d, kind, GetDocumentQueryOptions(options)) : d \in Documents}
EveryDocumentById(kind, identifier, options) ==
  UNION {DocGetById(d, kind, identifier, GetDocumentQueryOptions(options)) : d \in Documents}
EveryDocumentFeatures(options) ==
  UNION {DocGetFeatures(d, GetDocumentQueryOptions(options)) : d \in Documents}

(* C4: getByKind, getById and getFeatures return exactly the union, over   *)
(* all Documents of the mapping, of the Document's transitive query with   *)
(* the same options.                                                       *)
QueriesCoverEveryDocument ==
  /\ ret.op = "getByKind" =>
       ret.value = EveryDocumentByKind(ret.kind, ret.options)
  /\ ret.op = "getById" =>
       ret.value = EveryDocumentById(ret.kind, ret.id, ret.options)
  /\ ret.op = "getFeatures" =>
       ret.value = EveryDocumentFeatures(ret.options)

(* C5: getOnlyAtId returns the single Feature getById finds, undefined     *)
(* when getById finds none, and throws an error whose message reports the  *)
(* kind, the identifier and the number found when getById finds several.   *)
OnlyAtIdIsUnique ==
  ret.op = "getOnlyAtId" =>
    LET found == AnalysisGetById(ret.kind, ret.id, ret.options)
    IN  /\ Cardinality(found) = 1 =>
             ~ret.value.threw /\ ret.value.value \in found
        /\ Cardinality(found) = 0 =>
             ~ret.value.threw /\ ret.value.value = Undefined
        /\ Cardinality(found) >= 2 =>
             /\ ret.value.threw
             /\ ret.value.message[2] = ret.kind
             /\ ret.value.message[4] = ret.id
             /\ ret.value.message[6] = Cardinality(found)

OnlyAtIdWitness ==
  /\ ret.op = "getOnlyAtId"
  /\ ret.value.threw
  /\ ret.value.message[2] = "element"
  /\ ret.value.message[4] = "x-foo"
  /\ ret.value.message[6] = 2
  /\ Cardinality(SearchRootSet) = 2

(* C6: getWarnings returns a sequence that holds exactly the top-level     *)
(* Warnings of the mapping and the warnings of every Document of the       *)
(* mapping, each once.                                                     *)
WarningsAreAggregated ==
  ret.op = "getWarnings" =>
    /\ Range(ret.value) =
         {[top |-> TRUE, at |-> u] : u \in TopLevelWarnings} \cup warnings
    /\ \A i, j \in 1..Len(ret.value) : ret.value[i] = ret.value[j] => i = j

----------------------------------------------------------------------------
(* C7: with both arguments present, correctSourceLocation returns the      *)
(* inner line plus the offset line, and the inner column plus the offset   *)
(* column on line 0, the inner column unchanged on later lines.            *)
LocationIsRemapped ==
  (pc = "located" /\ sourceLocation # Undefined /\ locationOffset # Undefined) =>
    /\ corrected.line = sourceLocation.line + locationOffset.line
    /\ sourceLocation.line = 0 =>
         corrected.column = sourceLocation.column + locationOffset.col
    /\ sourceLocation.line > 0 =>
         corrected.column = sourceLocation.column

LocationWitness ==
  /\ pc = "located"
  /\ sourceLocation # Undefined /\ locationOffset # Undefined
  /\ sourceLocation.line = 2 /\ sourceLocation.column = 5
  /\ locationOffset.line = 10 /\ locationOffset.col = 3
  /\ corrected.line = 12 /\ corrected.column = 5

----------------------------------------------------------------------------
RECURSIVE SplitPath(_, _)
\* the "/"-separated components of the characters p, after the component
\* current that is being read
SplitPath(p, current) ==
  IF p = <<>> THEN <<current>>
  ELSE IF Head(p) = "/" THEN <<current>> \o SplitPath(Tail(p), <<>>)
       ELSE SplitPath(Tail(p), Append(current, Head(p)))

Components(p) == Range(SplitPath(p, <<>>))

BeginsWith(component, name) ==
  /\ Len(component) >= Len(name)
  /\ SubSeq(component, 1, Len(name)) = name

(* C8: isExternal(path) is true exactly when a "/"-separated component of  *)
(* the path is named build, or begins with bower_components or             *)
(* node_modules.                                                           *)
ExternalIsClassified ==
  pc = "classified" =>
    (external <=>
       \E c \in Components(path) :
         \/ c = Build
         \/ BeginsWith(c, BowerComponents)
         \/ BeginsWith(c, NodeModules))

ExternalWitness ==
  /\ pc = "classified"
  /\ path = Slash \o Build \o <<"-">>
  /\ ~external

----------------------------------------------------------------------------
(* C11: a url whose slot holds a top-level Warning is returned as that     *)
(* Warning by getDocument, is never a search root, contributes that        *)
(* Warning to getWarnings and no Feature to getByKind, getById or          *)
(* getFeatures, and does not make a query fail: the only failure is        *)
(* getOnlyAtId finding several Features, all owned by Documents.           *)
ScanFailuresAreLeaves ==
  pc = "ready" =>
    \A u \in TopLevelWarnings :
      /\ u \notin SearchRootSet
      /\ (ret.op = "getDocument" /\ ret.url = u) =>
           ret.value = [undefined |-> FALSE, kind |-> "Warning", url |-> u]
      /\ ret.op = "getWarnings" =>
           \E i \in 1..Len(ret.value) : ret.value[i] = [top |-> TRUE, at |-> u]
      /\ ret.op \in {"getByKind", "getById", "getFeatures"} =>
           \A f \in ret.value : f.owner # u /\ f.owner \in DocumentsOf(results)
      /\ (ret.op = "getOnlyAtId" /\ ret.value.threw) =>
           /\ ret.value.message[6] >= 2
           /\ ret.value.message[6] =
                Cardinality({f \in features :
                               /\ f.owner \in DocumentsOf(results)
                               /\ f.kind = ret.kind /\ f.id = ret.id})

ScanFailureWitness ==
  /\ pc = "ready"
  /\ results = <<"Warning", "Document">>
  /\ warnings = {[top |-> FALSE, at |-> 2]}
  /\ searchRoots = <<2>>
  /\ ret.op = "getWarnings"
  /\ ret.value = <<[top |-> TRUE, at |-> 1], [top |-> FALSE, at |-> 2]>>

====
